---- MODULE Spec2Model ----
(***************************************************************************)
(* The command-line driver of cmark-lua (src/main.c): argument scan,       *)
(* chunked feeding of the parser, the Lua filter chain, render dispatch    *)
(* and teardown, as a sequential state machine.  The Document Engine and   *)
(* the Lua runtime are external: a call to them is recorded in `trace`,    *)
(* and what they hand back (open result, file length, script outcome) is   *)
(* chosen nondeterministically.                                            *)
(***************************************************************************)
EXTENDS Integers, Sequences, FiniteSets, TLC

\* ------------------------------------------------------------- bounds
\* at most this many command-line arguments after the program name
MaxArgs == 4
\* the uninitialised `numfps` starts anywhere in -MaxGarbage..MaxGarbage
MaxGarbage == 1
\* an input source holds at most this many full buffers (plus 0 or 1 byte)
MaxFullReads == 1

\* ------------------------------------------------- program constants
\* sizeof(buffer)
BufSize == 4096
\* return 5: a filter raised while it was invoked
InvokeFailStatus == 5
\* (variant: the load failure returns the invocation failure's status)
LoadFailStatus_AsInvoke == InvokeFailStatus
\* return 3: a filter failed to load
LoadFailStatus == 3

\* the words a command line is drawn from
ArgTokens ==
  {"--lua", "--to", "--width", "--help", "--version", "--smart", "-x",
   "man", "20"}

\* lengths an input source may have: empty, short, exact multiples of the
\* buffer, and one byte more than a multiple
FileLens == {k * BufSize + r : k \in 0..MaxFullReads, r \in {0, 1}}

\* values a filter function may return (Lua type and, where it matters, value)
ReturnValues ==
  { [type |-> "number", num |-> 0 - 1, text |-> <<>>],
    [type |-> "number", num |-> 0,     text |-> <<>>],
    [type |-> "string", num |-> 0,     text |-> <<"-", "1">>],
    [type |-> "string", num |-> 0,     text |-> <<"0">>],
    [type |-> "string", num |-> 0,     text |-> <<"x">>],
    [type |-> "nil",    num |-> 0,     text |-> <<>>] }

NoValue == [type |-> "none", num |-> 0, text |-> <<>>]

\* ---------------------------------------------------------- C strings
\* the characters of each word the model uses
Chars(s) ==
  CASE s = "--lua"     -> <<"-", "-", "l", "u", "a">>
    [] s = "--to"      -> <<"-", "-", "t", "o">>
    [] s = "-t"        -> <<"-", "t">>
    [] s = "--width"   -> <<"-", "-", "w", "i", "d", "t", "h">>
    [] s = "--help"    -> <<"-", "-", "h", "e", "l", "p">>
    [] s = "-h"        -> <<"-", "h">>
    [] s = "--version" -> <<"-", "-", "v", "e", "r", "s", "i", "o", "n">>
    [] s = "--smart"   -> <<"-", "-", "s", "m", "a", "r", "t">>
    [] s = "-x"        -> <<"-", "x">>
    [] s = "man"       -> <<"m", "a", "n">>
    [] s = "latex"     -> <<"l", "a", "t", "e", "x">>
    [] s = "20"        -> <<"2", "0">>
    [] OTHER           -> <<"c", "m", "a", "r", "k">>

Digit(c) ==
  CASE c = "0" -> 0 [] c = "1" -> 1 [] c = "2" -> 2 [] c = "3" -> 3
    [] c = "4" -> 4 [] c = "5" -> 5 [] c = "6" -> 6 [] c = "7" -> 7
    [] c = "8" -> 8 [] c = "9" -> 9 [] OTHER -> 0 - 1

RECURSIVE ParseDigits(_, _)
ParseDigits(cs, acc) ==
  IF cs # <<>> /\ Digit(Head(cs)) >= 0
  THEN ParseDigits(Tail(cs), acc * 10 + Digit(Head(cs)))
  ELSE [val |-> acc, rest |-> cs]

\* strtol(s, &unparsed, 10): optional sign, then decimal digits; with no
\* digit at all nothing is consumed and the value is 0.  The words of the
\* model have few digits, so the value fits an int and the cast keeps it
strtol(cs) ==
  LET signed == cs # <<>> /\ Head(cs) \in {"-", "+"}
      body   == IF signed THEN Tail(cs) ELSE cs
      r      == ParseDigits(body, 0)
  IN  IF r.rest = body
      THEN [val |-> 0, rest |-> cs]
      ELSE [val |-> IF signed /\ Head(cs) = "-" THEN 0 - r.val ELSE r.val,
            rest |-> r.rest]

\* *argv[i] == '-'
StartsWithDash(s) == Head(Chars(s)) = "-"

\* the six option flags and the bit each one sets
OptionFlag(s) ==
  CASE s = "--sourcepos"     -> "CMARK_OPT_SOURCEPOS"
    [] s = "--hardbreaks"    -> "CMARK_OPT_HARDBREAKS"
    [] s = "--smart"         -> "CMARK_OPT_SMART"
    [] s = "--safe"          -> "CMARK_OPT_SAFE"
    [] s = "--normalize"     -> "CMARK_OPT_NORMALIZE"
    [] s = "--validate-utf8" -> "CMARK_OPT_VALIDATE_UTF8"
    [] OTHER                 -> "none"

IsOptionFlag(s) == OptionFlag(s) # "none"

\* a table that sends "man" to the HTML writer
WriterOf_ManAsHtml(s) ==
  CASE s = "man"        -> "FORMAT_HTML"
    [] s = "html"       -> "FORMAT_HTML"
    [] s = "xml"        -> "FORMAT_XML"
    [] s = "commonmark" -> "FORMAT_COMMONMARK"
    [] s = "latex"      -> "FORMAT_LATEX"
    [] OTHER            -> "FORMAT_NONE"

\* the --to argument to writer_format; FORMAT_NONE when it names no format
WriterOf(s) ==
  CASE s = "man"        -> "FORMAT_MAN"
    [] s = "html"       -> "FORMAT_HTML"
    [] s = "xml"        -> "FORMAT_XML"
    [] s = "commonmark" -> "FORMAT_COMMONMARK"
    [] s = "latex"      -> "FORMAT_LATEX"
    [] OTHER            -> "FORMAT_NONE"

\* ------------------------------------------------------------- state
VARIABLES
  argc, argv,            \* the command line; argv[0] is the program name
  pc,                    \* position in main
  i,                     \* the loop index of main
  numfps, numluafps,     \* counts of input files and of filters
  numfpsIndet,           \* numfps still holds its indeterminate first value
  files, luafiles,       \* the written cells of the two index arrays
  width, writer, options, format,
  skip_rendering,
  parser,                \* "none", "live", "finished", "freed"
  fp,                    \* the open input stream, or the closed one
  document,              \* "none", "live", "freed"
  tree,                  \* the filters that have worked on the document tree
  L,                     \* "none", "live"; lfn: what is on the Lua stack
  lfn,
  exitStatus,            \* the process status once pc = "exit"
  crashed,               \* the process was killed by a fault instead
  stdout, stderr,        \* what was written to the two streams
  trace                  \* the calls made to the engine and the runtime

vars == <<argc, argv, pc, i, numfps, numfpsIndet, numluafps, files, luafiles, width,
          writer, options, format, skip_rendering, parser, fp, document,
          tree, L, lfn, exitStatus, crashed, stdout, stderr, trace>>

scanVars == <<numfps, numfpsIndet, numluafps, files, luafiles, width, writer, options,
              format>>
resVars  == <<parser, fp, document, tree, L, lfn>>
outVars  == <<stdout, stderr>>

\* a stream: its length, the read position, and the sizes of the chunks that
\* were fed to the parser from it
Closed ==
  [open |-> FALSE, path |-> "", len |-> 0, pos |-> 0, chunks |-> <<>>,
   reads |-> 0]

Init ==
  /\ argc \in 1..(MaxArgs + 1)
  /\ argv \in [0..(argc - 1) -> ArgTokens \cup {"cmark"}]
  /\ argv[0] = "cmark"
  /\ \A k \in 1..(argc - 1) : argv[k] \in ArgTokens
  /\ pc = "args"
  /\ i = 1
  /\ numfps = 0
  /\ numfpsIndet = TRUE
  /\ numluafps = 0
  /\ files = <<>>
  /\ luafiles = <<>>
  /\ width = 0
  /\ writer = "FORMAT_HTML"
  /\ options = {}
  /\ format = "html"
  /\ skip_rendering = FALSE
  /\ parser = "none"
  /\ fp = Closed
  /\ document = "none"
  /\ tree = <<>>
  /\ L = "none"
  /\ lfn = "none"
  /\ exitStatus = 0
  /\ crashed = FALSE
  /\ stdout = <<>>
  /\ stderr = <<>>
  /\ trace = <<>>

\* an entry of trace: the call, the loop index it was made at, its argument,
\* how it ended and, for a filter that returned, the value it returned
Ev(op, k, arg, res) ==
  [op |-> op, k |-> k, arg |-> arg, res |-> res, val |-> NoValue]

\* exit(status) or return status, with the branch that took it
ExitEv(reason, status) == Ev("exit", i, reason, status)

\* (variant: the message is printed and the scan goes on)
AfterUsageError_GoesOn == "args"
\* where control is after exit(1) in the argument scan
AfterUsageError == "exit"

\* (variant: the message is printed and the loop goes to the next file)
AfterOpenFailure_NextFile == "close"
\* where control is after exit(1) on a failed fopen
AfterOpenFailure == "exit"

\* (variant: the message is printed and the loop closes L and goes on)
AfterFilterFailure_GoesOn == "lua_close"
\* where control is after return 3 and return 5 in the filter loop
AfterFilterFailure == "exit"

\* a cell of an index array written at index k
Store(arr, k, v) ==
  [x \in (DOMAIN arr) \cup {k} |-> IF x = k THEN v ELSE arr[x]]

\* ------------------------------------------------ the argument scan
Scanning == pc = "args" /\ i < argc

ArgVersion ==
  /\ Scanning
  /\ argv[i] = "--version"
  /\ stdout' = Append(stdout, [fn |-> "version", args |-> <<>>])
  /\ pc' = "exit"
  /\ exitStatus' = 0
  /\ trace' = Append(trace, ExitEv("version", 0))
  /\ UNCHANGED <<argc, argv, i, scanVars, skip_rendering, resVars, crashed,
                 stderr>>

ArgOption ==
  /\ Scanning
  /\ argv[i] # "--version"
  /\ IsOptionFlag(argv[i])
  /\ options' = options \cup {OptionFlag(argv[i])}
  /\ i' = i + 1
  /\ UNCHANGED <<argc, argv, pc, numfps, numfpsIndet, numluafps, files, luafiles, width,
                 writer, format, skip_rendering, resVars, exitStatus,
                 crashed, outVars, trace>>

ArgLua ==
  /\ Scanning
  /\ argv[i] = "--lua"
  /\ \/ /\ i + 1 < argc
        /\ luafiles' = Store(luafiles, numluafps, i + 1)
        /\ numluafps' = numluafps + 1
        /\ i' = i + 2
        /\ UNCHANGED <<pc, exitStatus, stderr, trace>>
     \/ /\ ~(i + 1 < argc)
        /\ stderr' = Append(stderr, "No --lua file specified")
        /\ pc' = AfterUsageError
        /\ exitStatus' = 1
        /\ trace' = Append(trace, ExitEv("lua_missing", 1))
        /\ UNCHANGED <<luafiles, numluafps, i>>
  /\ UNCHANGED <<argc, argv, numfps, numfpsIndet, files, width, writer,
                 options, format, skip_rendering, resVars, crashed, stdout>>

ArgHelp ==
  /\ Scanning
  /\ argv[i] \in {"--help", "-h"}
  /\ stdout' = Append(stdout, [fn |-> "print_usage", args |-> <<>>])
  /\ pc' = "exit"
  /\ exitStatus' = 0
  /\ trace' = Append(trace, ExitEv("help", 0))
  /\ UNCHANGED <<argc, argv, i, scanVars, skip_rendering, resVars, crashed,
                 stderr>>

ArgWidth ==
  /\ Scanning
  /\ argv[i] = "--width"
  /\ \/ /\ i + 1 < argc
        /\ LET r == strtol(Chars(argv[i + 1])) IN
             /\ width' = r.val
             /\ \/ /\ Len(r.rest) > 0
                   /\ stderr' = Append(stderr, "failed parsing width")
                   /\ pc' = AfterUsageError
                   /\ exitStatus' = 1
                   /\ trace' = Append(trace, ExitEv("width_unparsed", 1))
                   /\ i' = i + 1
                \/ /\ Len(r.rest) = 0
                   /\ i' = i + 2
                   /\ UNCHANGED <<pc, exitStatus, stderr, trace>>
     \/ /\ ~(i + 1 < argc)
        /\ stderr' = Append(stderr, "--width requires an argument")
        /\ pc' = AfterUsageError
        /\ exitStatus' = 1
        /\ trace' = Append(trace, ExitEv("width_missing", 1))
        /\ i' = i + 1
        /\ UNCHANGED width
  /\ UNCHANGED <<argc, argv, numfps, numfpsIndet, numluafps, files, luafiles,
                 writer, options, format, skip_rendering, resVars, crashed,
                 stdout>>

ArgTo ==
  /\ Scanning
  /\ argv[i] \in {"-t", "--to"}
  /\ \/ /\ i + 1 < argc
        /\ format' = argv[i + 1]
        /\ \/ /\ WriterOf(argv[i + 1]) # "FORMAT_NONE"
              /\ writer' = WriterOf(argv[i + 1])
              /\ i' = i + 2
              /\ UNCHANGED <<pc, exitStatus, stderr, trace>>
           \/ /\ WriterOf(argv[i + 1]) = "FORMAT_NONE"
              /\ stderr' = Append(stderr, "Unknown format")
              /\ pc' = AfterUsageError
              /\ exitStatus' = 1
              /\ trace' = Append(trace, ExitEv("format_unknown", 1))
              /\ i' = i + 1
              /\ UNCHANGED writer
     \/ /\ ~(i + 1 < argc)
        /\ stderr' = Append(stderr, "No argument provided")
        /\ pc' = AfterUsageError
        /\ exitStatus' = 1
        /\ trace' = Append(trace, ExitEv("to_missing", 1))
        /\ i' = i + 1
        /\ UNCHANGED <<format, writer>>
  /\ UNCHANGED <<argc, argv, numfps, numfpsIndet, numluafps, files, luafiles,
                 width, options, skip_rendering, resVars, crashed, stdout>>

\* none of the flags the scan knows
OtherArg(s) ==
  /\ s \notin {"--version", "--lua", "--help", "-h", "--width", "-t", "--to"}
  /\ ~IsOptionFlag(s)

ArgBadFlag ==
  /\ Scanning
  /\ OtherArg(argv[i])
  /\ StartsWithDash(argv[i])
  /\ stdout' = Append(stdout, [fn |-> "print_usage", args |-> <<>>])
  /\ pc' = AfterUsageError
  /\ exitStatus' = 1
  /\ trace' = Append(trace, ExitEv("flag_unknown", 1))
  /\ UNCHANGED <<argc, argv, i, scanVars, skip_rendering, resVars, crashed,
                 stderr>>

\* the value a read of numfps yields: any int while it is indeterminate
NumfpsValues ==
  IF numfpsIndet THEN (0 - MaxGarbage)..MaxGarbage ELSE {numfps}

\* files[numfps++] = i.  numfps was never initialised, so the index may lie
\* outside the array: the store then faults, or lands outside and is lost
ArgFile ==
  /\ Scanning
  /\ OtherArg(argv[i])
  /\ ~StartsWithDash(argv[i])
  /\ \E n \in NumfpsValues :
       \/ /\ n \in 0..(argc - 1)
          /\ files' = Store(files, n, i)
          /\ numfps' = n + 1
          /\ i' = i + 1
          /\ UNCHANGED <<pc, crashed>>
       \/ /\ n \notin 0..(argc - 1)
          /\ \/ /\ numfps' = n + 1
                /\ i' = i + 1
                /\ UNCHANGED <<pc, crashed, files>>
             \/ /\ pc' = "exit"
                /\ crashed' = TRUE
                /\ numfps' = n
                /\ UNCHANGED <<i, files>>
  /\ numfpsIndet' = FALSE
  /\ UNCHANGED <<argc, argv, numluafps, luafiles, width, writer, options,
                 format, skip_rendering, resVars, exitStatus, outVars, trace>>

\* ------------------------------------------------------ reading input
\* the end of the scan: cmark_parser_new(options), then the file loop
ParserNew ==
  /\ pc = "args"
  /\ ~(i < argc)
  /\ parser' = "live"
  /\ trace' = Append(trace, Ev("cmark_parser_new", i, options, "ok"))
  /\ i' = 0
  /\ pc' = "files"
  /\ UNCHANGED <<argc, argv, scanVars, skip_rendering, fp, document, tree, L,
                 lfn, exitStatus, crashed, outVars>>

Stream(path, len) ==
  [open |-> TRUE, path |-> path, len |-> len, pos |-> 0, chunks |-> <<>>,
   reads |-> 0]

\* fopen(argv[files[i]], "r") with its failure branch.  A cell of files that
\* was never written names no argument: the open then faults, fails, or
\* opens whatever file the stray pointer names
FOpen ==
  /\ pc = "files"
  /\ \E n \in NumfpsValues :
       /\ i < n
       /\ numfps' = n
       /\ \/ /\ i \in DOMAIN files
             /\ \/ /\ \E len \in FileLens :
                        fp' = Stream(argv[files[i]], len)
                   /\ trace' = Append(trace,
                                Ev("fopen", i, argv[files[i]], "ok"))
                   /\ pc' = "read"
                   /\ UNCHANGED <<exitStatus, crashed, stderr>>
                \/ /\ trace' = trace \o
                                <<Ev("fopen", i, argv[files[i]], "null"),
                                  ExitEv("open_failed", 1)>>
                   /\ stderr' = Append(stderr, "Error opening file")
                   /\ pc' = AfterOpenFailure
                   /\ exitStatus' = 1
                   /\ UNCHANGED <<fp, crashed>>
          \/ /\ i \notin DOMAIN files
             /\ \/ /\ \E len \in FileLens : fp' = Stream("?", len)
                   /\ trace' = Append(trace, Ev("fopen", i, "?", "ok"))
                   /\ pc' = "read"
                   /\ UNCHANGED <<exitStatus, crashed, stderr>>
                \/ /\ trace' = trace \o <<Ev("fopen", i, "?", "null"),
                                           ExitEv("open_failed", 1)>>
                   /\ stderr' = Append(stderr, "Error opening file")
                   /\ pc' = AfterOpenFailure
                   /\ exitStatus' = 1
                   /\ UNCHANGED <<fp, crashed>>
                \/ /\ pc' = "exit"
                   /\ crashed' = TRUE
                   /\ UNCHANGED <<fp, exitStatus, stderr, trace>>
  /\ numfpsIndet' = FALSE
  /\ UNCHANGED <<argc, argv, i, numluafps, files, luafiles, width, writer,
                 options, format, skip_rendering, parser, document,
                 tree, L, lfn, stdout>>

\* bytes = fread(buffer, 1, sizeof(buffer), f)
fread(f) == IF f.len - f.pos < BufSize THEN f.len - f.pos ELSE BufSize

\* the read loop without the break on a short read (lines 181-183)
ReadChunk_NoShortBreak(after) ==
  LET bytes == fread(fp) IN
    /\ fp' = [fp EXCEPT !.pos = fp.pos + bytes,
                        !.chunks = IF bytes > 0 THEN Append(fp.chunks, bytes)
                                   ELSE fp.chunks,
                        !.reads = fp.reads + 1]
    /\ UNCHANGED trace
    /\ pc' = IF bytes > 0 THEN pc ELSE after

\* one turn of the read loop on the open stream: feed what was read, and
\* leave the loop on an empty or a short read
ReadChunk(after) ==
  LET bytes == fread(fp) IN
    /\ fp' = [fp EXCEPT !.pos = fp.pos + bytes,
                        !.chunks = IF bytes > 0 THEN Append(fp.chunks, bytes)
                                   ELSE fp.chunks,
                        !.reads = fp.reads + 1]
    /\ UNCHANGED trace
    /\ pc' = IF bytes > 0 /\ ~(bytes < BufSize) THEN pc ELSE after

FRead ==
  /\ pc = "read"
  /\ ReadChunk("close")
  /\ UNCHANGED <<argc, argv, i, scanVars, skip_rendering, parser, document,
                 tree, L, lfn, exitStatus, crashed, outVars>>

FClose ==
  /\ pc = "close"
  /\ fp' = Closed
  /\ trace' = Append(trace, Ev("fclose", i, fp.path, "ok"))
  /\ i' = i + 1
  /\ pc' = "files"
  /\ UNCHANGED <<argc, argv, scanVars, skip_rendering, parser, document,
                 tree, L, lfn, exitStatus, crashed, outVars>>

\* the file loop is over; standard input is read when numfps == 0
FilesDone ==
  /\ pc = "files"
  /\ \E n \in NumfpsValues :
       /\ ~(i < n)
       /\ numfps' = n
       /\ \/ /\ n = 0
             /\ \E len \in FileLens : fp' = Stream("stdin", len)
             /\ pc' = "stdin"
          \/ /\ n # 0
             /\ pc' = "finish"
             /\ UNCHANGED fp
  /\ numfpsIndet' = FALSE
  /\ UNCHANGED <<argc, argv, i, numluafps, files, luafiles, width, writer,
                 options, format, skip_rendering, parser, document,
                 tree, L, lfn, exitStatus, crashed, outVars, trace>>

StdinRead ==
  /\ pc = "stdin"
  /\ ReadChunk("finish")
  /\ UNCHANGED <<argc, argv, i, scanVars, skip_rendering, parser, document,
                 tree, L, lfn, exitStatus, crashed, outVars>>

\* finish without the cmark_parser_free that follows it
Finish_KeepsParser ==
  /\ pc = "finish"
  /\ fp' = Closed
  /\ document' = "live"
  /\ tree' = <<>>
  /\ trace' = Append(trace, Ev("cmark_parser_finish", i, "parser", "ok"))
  /\ i' = 0
  /\ pc' = "filters"
  /\ UNCHANGED <<argc, argv, scanVars, skip_rendering, parser, L, lfn,
                 exitStatus, crashed, outVars>>

\* document = cmark_parser_finish(parser); cmark_parser_free(parser)
Finish ==
  /\ pc = "finish"
  /\ fp' = Closed
  /\ document' = "live"
  /\ tree' = <<>>
  /\ parser' = "freed"
  /\ trace' = trace \o <<Ev("cmark_parser_finish", i, "parser", "ok"),
                          Ev("cmark_parser_free", i, "parser", "ok")>>
  /\ i' = 0
  /\ pc' = "filters"
  /\ UNCHANGED <<argc, argv, scanVars, skip_rendering, L, lfn,
                 exitStatus, crashed, outVars>>

\* ---------------------------------------------------- the filter chain
\* a string converts to a number when all of it is a numeral
StrToNumber(cs) ==
  LET r == strtol(cs)
  IN  IF cs # <<>> /\ r.rest = <<>>
      THEN [ok |-> TRUE, val |-> r.val]
      ELSE [ok |-> FALSE, val |-> 0]

\* (variant: the result is converted without the lua_isnumber test)
lua_isnumber_Any(v) == v.type \in {"number", "string", "nil"}

\* lua_isnumber(L, -1): a number, or a string convertible to a number
lua_isnumber(v) ==
  \/ v.type = "number"
  \/ v.type = "string" /\ StrToNumber(v.text).ok

\* lua_tonumber(L, -1), for a value lua_isnumber accepts
lua_tonumber(v) ==
  IF v.type = "number" THEN v.num ELSE StrToNumber(v.text).val

\* (variant: a number other than -1 does not clear the flag)
SkipAfter_Sticky(skip, v) ==
  skip \/ (lua_isnumber(v) /\ lua_tonumber(v) = 0 - 1)

\* (variant: the result is compared with 1)
SkipAfter_PlusOne(skip, v) ==
  IF lua_isnumber(v) THEN lua_tonumber(v) = 1 ELSE skip

\* lines 228-231: what the filter's result makes of skip_rendering
SkipAfter(skip, v) ==
  IF lua_isnumber(v) THEN lua_tonumber(v) = 0 - 1 ELSE skip

\* (variant: the scripts are taken from the last one down)
FilterArg_Reversed(k) == luafiles[numluafps - 1 - k]

\* the argv index of the script run at turn k of the filter loop
FilterArg(k) == luafiles[k]

\* luaL_newstate and the libraries, at the head of one turn of the loop
LuaNewState ==
  /\ pc = "filters"
  /\ i < numluafps
  /\ L' = "live"
  /\ trace' = Append(trace, Ev("luaL_newstate", i, "L", "ok"))
  /\ pc' = "load"
  /\ UNCHANGED <<argc, argv, i, scanVars, skip_rendering, parser, fp,
                 document, tree, lfn, exitStatus, crashed, outVars>>

\* the load whose status is that of luaL_loadfile alone: an error raised by
\* the chunk's top level goes unnoticed and leaves no function on the stack
LuaLoad_EvalUnchecked ==
  /\ pc = "load"
  /\ \/ /\ trace' = trace \o
                     <<Ev("luaL_loadfile", i, FilterArg(i), "error"),
                       ExitEv("load_failed", LoadFailStatus)>>
        /\ stderr' = Append(stderr, "lua message")
        /\ pc' = AfterFilterFailure
        /\ exitStatus' = LoadFailStatus
        /\ UNCHANGED lfn
     \/ /\ lfn' = "value"
        /\ trace' = trace \o
                     <<Ev("luaL_loadfile", i, FilterArg(i), "ok"),
                       Ev("lua_pcall0", i, "chunk", "error")>>
        /\ pc' = "call"
        /\ UNCHANGED <<exitStatus, stderr>>
     \/ /\ \E v \in {"function", "value"} : lfn' = v
        /\ trace' = trace \o
                     <<Ev("luaL_loadfile", i, FilterArg(i), "ok"),
                       Ev("lua_pcall0", i, "chunk", "ok")>>
        /\ pc' = "call"
        /\ UNCHANGED <<exitStatus, stderr>>
  /\ UNCHANGED <<argc, argv, i, scanVars, skip_rendering, parser, fp,
                 document, tree, L, crashed, stdout>>

\* status = luaL_loadfile(L, argv[luafiles[i]]) || lua_pcall(L, 0, 1, 0):
\* the file is compiled and its top level is run; either may fail, and
\* main then returns 3 at once
LuaLoad ==
  /\ pc = "load"
  /\ \/ /\ trace' = trace \o
                     <<Ev("luaL_loadfile", i, FilterArg(i), "error"),
                       ExitEv("load_failed", LoadFailStatus)>>
        /\ stderr' = Append(stderr, "lua message")
        /\ pc' = AfterFilterFailure
        /\ exitStatus' = LoadFailStatus
        /\ UNCHANGED lfn
     \/ /\ trace' = trace \o
                     <<Ev("luaL_loadfile", i, FilterArg(i), "ok"),
                       Ev("lua_pcall0", i, "chunk", "error"),
                       ExitEv("load_failed", LoadFailStatus)>>
        /\ stderr' = Append(stderr, "lua message")
        /\ pc' = AfterFilterFailure
        /\ exitStatus' = LoadFailStatus
        /\ UNCHANGED lfn
     \/ /\ \E v \in {"function", "value"} : lfn' = v
        /\ trace' = trace \o
                     <<Ev("luaL_loadfile", i, FilterArg(i), "ok"),
                       Ev("lua_pcall0", i, "chunk", "ok")>>
        /\ pc' = "call"
        /\ UNCHANGED <<exitStatus, stderr>>
  /\ UNCHANGED <<argc, argv, i, scanVars, skip_rendering, parser, fp,
                 document, tree, L, crashed, stdout>>

\* a second parse, or a copy, would hand the filter a tree no filter has
\* worked on
push_cmark_node_Fresh == <<>>

\* push_cmark_node(L, document): the handle pushed for the filter wraps the
\* pointer main holds, so the filter works on the program's one tree as it
\* stands
push_cmark_node == tree

\* push_cmark_node, lua_pushstring(format), lua_pcall(L, 2, 1, 0): the call
\* raises (always, when the script gave no callable value) and main returns
\* 5, or it returns a value and lines 228-231 look at it.  A filter that
\* returns has worked on the tree in place
LuaCall ==
  /\ pc = "call"
  /\ \/ /\ trace' = trace \o
                     <<Ev("lua_pcall2", i, <<push_cmark_node, format>>,
                          "error"),
                       ExitEv("invoke_failed", InvokeFailStatus)>>
        /\ stderr' = Append(stderr, "Error running filter")
        /\ pc' = AfterFilterFailure
        /\ exitStatus' = InvokeFailStatus
        /\ UNCHANGED <<skip_rendering, tree>>
     \/ /\ lfn = "function"
        /\ \E v \in ReturnValues :
             /\ trace' = Append(trace,
                                [Ev("lua_pcall2", i,
                                    <<push_cmark_node, format>>, "ok")
                                   EXCEPT !.val = v])
             /\ skip_rendering' = SkipAfter(skip_rendering, v)
        /\ tree' = Append(tree, i)
        /\ pc' = "lua_close"
        /\ UNCHANGED <<exitStatus, stderr>>
  /\ UNCHANGED <<argc, argv, i, scanVars, parser, fp, document, L, lfn,
                 crashed, stdout>>

\* the step of the loop without the lua_close before it
LuaClose_Leaks ==
  /\ pc = "lua_close"
  /\ lfn' = "none"
  /\ i' = i + 1
  /\ pc' = "filters"
  /\ UNCHANGED <<argc, argv, scanVars, skip_rendering, parser, fp, document,
                 tree, L, exitStatus, crashed, outVars, trace>>

\* lua_close(L) and the step of the loop
LuaClose ==
  /\ pc = "lua_close"
  /\ L' = "none"
  /\ lfn' = "none"
  /\ trace' = Append(trace, Ev("lua_close", i, "L", "ok"))
  /\ i' = i + 1
  /\ pc' = "filters"
  /\ UNCHANGED <<argc, argv, scanVars, skip_rendering, parser, fp, document,
                 tree, exitStatus, crashed, outVars>>

\* ------------------------------------------------ render and teardown
\* (variant: the HTML renderer is handed the width as well)
print_document_WidthToHtml(doc, w, opts, wd) ==
  CASE w = "FORMAT_HTML" ->
         [fn |-> "cmark_render_html", args |-> <<doc, opts, wd>>]
    [] w = "FORMAT_XML" ->
         [fn |-> "cmark_render_xml", args |-> <<doc, opts>>]
    [] w = "FORMAT_MAN" ->
         [fn |-> "cmark_render_man", args |-> <<doc, opts, wd>>]
    [] w = "FORMAT_COMMONMARK" ->
         [fn |-> "cmark_render_commonmark", args |-> <<doc, opts, wd>>]
    [] w = "FORMAT_LATEX" ->
         [fn |-> "cmark_render_latex", args |-> <<doc, opts, wd>>]
    [] OTHER ->
         [fn |-> "none", args |-> <<>>]

\* print_document: the render call its switch makes, with its arguments
print_document(doc, w, opts, wd) ==
  CASE w = "FORMAT_HTML" ->
         [fn |-> "cmark_render_html", args |-> <<doc, opts>>]
    [] w = "FORMAT_XML" ->
         [fn |-> "cmark_render_xml", args |-> <<doc, opts>>]
    [] w = "FORMAT_MAN" ->
         [fn |-> "cmark_render_man", args |-> <<doc, opts, wd>>]
    [] w = "FORMAT_COMMONMARK" ->
         [fn |-> "cmark_render_commonmark", args |-> <<doc, opts, wd>>]
    [] w = "FORMAT_LATEX" ->
         [fn |-> "cmark_render_latex", args |-> <<doc, opts, wd>>]
    [] OTHER ->
         [fn |-> "none", args |-> <<>>]

\* the body of print_document run on the current state: the text the
\* renderer returns goes to standard output; the default branch exits 1
PrintDocument(after) ==
  LET call == print_document(document, writer, options, width) IN
    IF call.fn = "none"
    THEN /\ stderr' = Append(stderr, "Unknown format")
         /\ pc' = "exit"
         /\ exitStatus' = 1
         /\ trace' = Append(trace, ExitEv("writer_unknown", 1))
         /\ UNCHANGED stdout
    ELSE /\ stdout' = Append(stdout, call)
         /\ trace' = Append(trace, Ev("render", i, call, tree))
         /\ pc' = after
         /\ UNCHANGED <<stderr, exitStatus>>

\* the filter loop is over and skip_rendering is false
Render ==
  /\ pc = "filters"
  /\ ~(i < numluafps)
  /\ ~skip_rendering
  /\ PrintDocument("free")
  /\ UNCHANGED <<argc, argv, i, scanVars, skip_rendering, resVars, crashed>>

\* the filter loop is over and skip_rendering is true
SkipRender ==
  /\ pc = "filters"
  /\ ~(i < numluafps)
  /\ skip_rendering
  /\ pc' = "free"
  /\ UNCHANGED <<argc, argv, i, scanVars, skip_rendering, resVars,
                 exitStatus, crashed, outVars, trace>>

\* cmark_node_free(document), free(files), free(luafiles), return 0
FreeDocument ==
  /\ pc = "free"
  /\ document' = "freed"
  /\ trace' = trace \o <<Ev("cmark_node_free", i, "document", "ok"),
                          ExitEv("done", 0)>>
  /\ pc' = "exit"
  /\ exitStatus' = 0
  /\ UNCHANGED <<argc, argv, i, scanVars, skip_rendering, parser, fp, tree,
                 L, lfn, crashed, outVars>>

Next ==
  \/ ArgVersion
  \/ ArgOption
  \/ ArgLua
  \/ ArgHelp
  \/ ArgWidth
  \/ ArgTo
  \/ ArgBadFlag
  \/ ArgFile
  \/ ParserNew
  \/ FOpen
  \/ FRead
  \/ FClose
  \/ FilesDone
  \/ StdinRead
  \/ Finish
  \/ LuaNewState
  \/ LuaLoad
  \/ LuaCall
  \/ LuaClose
  \/ Render
  \/ SkipRender
  \/ FreeDocument

Spec == Init /\ [][Next]_vars

\* ------------------------------------- print_document on its own inputs
Writers ==
  {"FORMAT_HTML", "FORMAT_XML", "FORMAT_MAN", "FORMAT_COMMONMARK",
   "FORMAT_LATEX"}

RenderWidths == {0, 20, 72, 80}

InitRender ==
  /\ argc = 1
  /\ argv = [k \in {0} |-> "cmark"]
  /\ pc = "print_document"
  /\ i = 0
  /\ numfps = 0
  /\ numfpsIndet = FALSE
  /\ numluafps = 0
  /\ files = <<>>
  /\ luafiles = <<>>
  /\ width \in RenderWidths
  /\ writer \in Writers
  /\ options \in SUBSET {"CMARK_OPT_SOURCEPOS", "CMARK_OPT_SMART"}
  /\ format = "html"
  /\ skip_rendering = FALSE
  /\ parser = "freed"
  /\ fp = Closed
  /\ document = "live"
  /\ tree = <<>>
  /\ L = "none"
  /\ lfn = "none"
  /\ exitStatus = 0
  /\ crashed = FALSE
  /\ stdout = <<>>
  /\ stderr = <<>>
  /\ trace = <<>>

PrintDocumentCall ==
  /\ pc = "print_document"
  /\ PrintDocument("returned")
  /\ UNCHANGED <<argc, argv, i, scanVars, skip_rendering, resVars, crashed>>

NextRender == PrintDocumentCall

SpecRender == InitRender /\ [][NextRender]_vars

\* ===================================================== properties
Positions == 1..Len(trace)

Has(op) == \E p \in Positions : trace[p].op = op

CountOp(op) == Cardinality({p \in Positions : trace[p].op = op})

\* the process ended by exit or return with this status
Exited(st) == pc = "exit" /\ ~crashed /\ exitStatus = st

\* the calls of filter functions that returned, in the order they were made
Returned ==
  SelectSeq(trace, LAMBDA e : e.op = "lua_pcall2" /\ e.res = "ok")

\* a filter result is numeric when the runtime's number test accepts it: a
\* number, or a string that spells one
NumericTexts == {<<"-", "1">>, <<"0">>}

IsNumeric(v) ==
  \/ v.type = "number"
  \/ v.type = "string" /\ v.text \in NumericTexts

IsMinusOne(v) ==
  \/ v.type = "number" /\ v.num = 0 - 1
  \/ v.type = "string" /\ v.text = <<"-", "1">>

\* RenderControl as the most recent numeric result sets it
RECURSIVE RenderControl(_)
RenderControl(rets) ==
  IF rets = <<>> THEN "PROCEED"
  ELSE LET v == rets[Len(rets)].val
       IN  IF IsNumeric(v)
           THEN IF IsMinusOne(v) THEN "SKIP" ELSE "PROCEED"
           ELSE RenderControl(SubSeq(rets, 1, Len(rets) - 1))

AllFiltersReturned == Has("cmark_parser_finish") /\ Len(Returned) = numluafps

RenderOps ==
  {"cmark_render_html", "cmark_render_xml", "cmark_render_man",
   "cmark_render_commonmark", "cmark_render_latex"}

NothingRendered ==
  /\ ~Has("render")
  /\ \A k \in 1..Len(stdout) : stdout[k].fn \notin RenderOps

\* C1: in a run in which every filter loaded and returned and the last
\* numeric result was -1, the render operation is never called, the tree is
\* destroyed (once) and the process exits with status 0.
C1_SkipBypassesRender ==
  (AllFiltersReturned /\ RenderControl(Returned) = "SKIP")
    => /\ NothingRendered
       /\ pc = "exit" => /\ Exited(0)
                         /\ document = "freed"
                         /\ CountOp("cmark_node_free") = 1

\* a finished run of two filters: the first returned -1, the second nil
C1_Witness ==
  /\ pc = "exit"
  /\ numluafps = 2
  /\ AllFiltersReturned
  /\ RenderControl(Returned) = "SKIP"
  /\ ~IsNumeric(Returned[2].val)

\* C2: skip_rendering always is what the most recent numeric filter result
\* made it (-1: SKIP, any other number: PROCEED, also after an earlier SKIP),
\* non-numeric results leave it alone, and it is PROCEED when no filter
\* returned a number; so it is at render time.
C2_RenderControlFollowsLastNumber ==
  skip_rendering = (RenderControl(Returned) = "SKIP")

\* at render time, after a filter that returned -1 and one that returned 0
C2_Witness ==
  /\ pc = "filters"
  /\ numluafps = 2
  /\ i = 2
  /\ IsMinusOne(Returned[1].val)
  /\ IsNumeric(Returned[2].val)
  /\ ~IsMinusOne(Returned[2].val)
  /\ ~skip_rendering

\* a filter failed to load: its file did not compile or its top level raised
LoadFailed ==
  \E p \in Positions :
    /\ trace[p].op \in {"luaL_loadfile", "lua_pcall0"}
    /\ trace[p].res = "error"

\* a filter raised while it was invoked
InvokeRaised ==
  \E p \in Positions : trace[p].op = "lua_pcall2" /\ trace[p].res = "error"

\* C3: the statuses of a load failure and of an invocation failure are not
\* 0, not 1 and not equal; a run ends with the first only when a filter
\* failed to load and with the second only when a filter raised.
C3_FailureStatuses ==
  /\ LoadFailStatus \notin {0, 1, InvokeFailStatus}
  /\ InvokeFailStatus \notin {0, 1}
  /\ (pc = "exit" /\ LoadFailed) => Exited(LoadFailStatus)
  /\ (pc = "exit" /\ InvokeRaised) => Exited(InvokeFailStatus)
  /\ Exited(LoadFailStatus) => LoadFailed
  /\ Exited(InvokeFailStatus) => InvokeRaised

\* a run ended by a script whose top level raised
C3_Witness ==
  /\ Exited(3)
  /\ \E p \in Positions : trace[p].op = "lua_pcall0" /\ trace[p].res = "error"

FilterOps ==
  {"luaL_newstate", "luaL_loadfile", "lua_pcall0", "lua_pcall2", "lua_close"}

\* filter k has returned before position q of the trace
ReturnedBefore(k, q) ==
  \E p \in 1..(q - 1) :
    /\ trace[p].op = "lua_pcall2"
    /\ trace[p].k = k
    /\ trace[p].res = "ok"

\* C4: filters run in the order of their --lua flags, each at most once and,
\* in a run without failure, exactly once; filter k+1 is not loaded or
\* invoked before filter k has returned, and the renderer is not called
\* before the last filter has returned.
C4_FiltersInFlagOrder ==
  /\ \A p \in Positions :
       trace[p].op = "luaL_loadfile" =>
         /\ trace[p].k \in 0..(numluafps - 1)
         /\ trace[p].arg = luafiles[trace[p].k]
         /\ argv[trace[p].arg - 1] = "--lua"
         /\ \A j \in 0..(trace[p].k - 1) : luafiles[j] < trace[p].arg
  /\ \A p \in Positions, q \in Positions :
       (p < q /\ trace[p].op \in FilterOps /\ trace[q].op \in FilterOps)
         => trace[p].k <= trace[q].k
  /\ \A p \in Positions, q \in Positions :
       (trace[p].op = "lua_pcall2" /\ trace[q].op = "lua_pcall2"
          /\ trace[p].k = trace[q].k) => p = q
  /\ \A q \in Positions :
       (trace[q].op \in FilterOps /\ trace[q].k > 0)
         => ReturnedBefore(trace[q].k - 1, q)
  /\ \A q \in Positions :
       trace[q].op = "render" =>
         \A k \in 0..(numluafps - 1) : ReturnedBefore(k, q)
  /\ (Exited(0) /\ document = "freed") =>
       \A k \in 0..(numluafps - 1) :
         Cardinality({p \in Positions : /\ trace[p].op = "lua_pcall2"
                                        /\ trace[p].k = k}) = 1

\* a run of two filters that rendered
C4_Witness ==
  /\ Exited(0)
  /\ numluafps = 2
  /\ Has("render")
  /\ Len(Returned) = 2

\* the trace entry at p reports a failed filter
FilterFailureAt(p) ==
  /\ trace[p].op \in {"luaL_loadfile", "lua_pcall0", "lua_pcall2"}
  /\ trace[p].res = "error"

\* C5: once a filter fails to load or raises, nothing more is loaded,
\* invoked or rendered: the failure is followed only by the end of the
\* process, with the status of that failure and no rendered output.
C5_FilterFailureIsFinal ==
  \A p \in Positions :
    FilterFailureAt(p) =>
      /\ Len(trace) = p + 1
      /\ trace[p + 1].op = "exit"
      /\ pc = "exit"
      /\ ~crashed
      /\ exitStatus = IF trace[p].op = "lua_pcall2" THEN 5 ELSE 3
      /\ NothingRendered

\* the second of two filters raised after the first had returned
C5_Witness ==
  /\ Exited(5)
  /\ numluafps = 2
  /\ Len(Returned) = 1
  /\ InvokeRaised

\* C6: one tree is created and one destroyed on every terminal path reached
\* after the tree exists (render, skip, filter load failure, invocation
\* failure); only a failed open and the exits of the argument scan end
\* with no tree created.
C6_OneTreePerRun ==
  pc = "exit" =>
    /\ CountOp("cmark_parser_finish") <= 1
    /\ document # "none" => /\ document = "freed"
                            /\ CountOp("cmark_node_free") = 1
    /\ (document = "none" /\ ~crashed) =>
         trace[Len(trace)].arg \in
           {"open_failed", "version", "help", "lua_missing", "width_unparsed",
            "width_missing", "format_unknown", "to_missing", "flag_unknown"}

\* C7: every script-runtime instance that was created is released, also
\* when the load fails or the invocation raises; no run ends with one live.
C7_RuntimeReleased ==
  pc = "exit" =>
    /\ L = "none"
    /\ CountOp("luaL_newstate") = CountOp("lua_close")

\* C8: a failed open of an input file ends the process with status 1 and no
\* output: finish is not called, no filter runs, nothing is rendered, also
\* after earlier files were opened and read.
C8_OpenFailureIsFatal ==
  \A p \in Positions :
    (trace[p].op = "fopen" /\ trace[p].res = "null") =>
      /\ Len(trace) = p + 1
      /\ trace[p + 1].op = "exit"
      /\ Exited(1)
      /\ document = "none"
      /\ ~Has("cmark_parser_finish")
      /\ ~Has("luaL_newstate")
      /\ NothingRendered
      /\ stdout = <<>>

\* the second named file failed to open after the first was read and closed
C8_Witness ==
  /\ Exited(1)
  /\ Len(trace) = 5
  /\ trace[2].op = "fopen" /\ trace[2].res = "ok" /\ trace[2].arg # "?"
  /\ trace[3].op = "fclose"
  /\ trace[4].op = "fopen" /\ trace[4].res = "null" /\ trace[4].arg # "?"

UsageErrors ==
  {"flag_unknown", "to_missing", "width_missing", "lua_missing",
   "width_unparsed", "format_unknown"}

\* the trace entry at p is the exit taken for a usage error
UsageErrorAt(p) == trace[p].op = "exit" /\ trace[p].arg \in UsageErrors

\* a usage error ends the process with status 1 before any parsing begins
UsageErrorIsFatal(p) ==
  /\ Len(trace) = 1
  /\ Exited(1)
  /\ parser = "none"
  /\ document = "none"
  /\ fp = Closed
  /\ L = "none"
  /\ NothingRendered

\* C9 as stated: every usage error is reported on standard error, exits 1,
\* and does so before a parser is created, input is read, a filter is run or
\* anything is rendered.
C9_UsageErrorOnStderr ==
  \A p \in Positions :
    UsageErrorAt(p) =>
      /\ UsageErrorIsFatal(p)
      /\ Len(stderr) = 1
      /\ stdout = <<>>

\* C9 (amended): every usage error exits 1 before any parsing begins; it is
\* reported on standard error, except the unrecognized flag, for which the
\* usage text is printed on standard output and nothing on standard error.
C9_UsageErrorIsFatal ==
  \A p \in Positions :
    UsageErrorAt(p) =>
      /\ UsageErrorIsFatal(p)
      /\ IF trace[p].arg = "flag_unknown"
         THEN /\ stderr = <<>>
              /\ Len(stdout) = 1
              /\ stdout[1].fn = "print_usage"
         ELSE /\ Len(stderr) = 1
              /\ stdout = <<>>

\* an unrecognized flag after two arguments that were accepted
C9_Witness ==
  /\ Exited(1)
  /\ i = 3
  /\ trace[Len(trace)].arg = "flag_unknown"
  /\ Len(stdout) = 1

\* the render call is the same whatever width is given
IgnoresWidth(call) ==
  \A wd \in RenderWidths :
    print_document(document, writer, options, wd) = call

\* the render call was handed the width
ReceivesWidth(call) == Len(call.args) = 3 /\ call.args[3] = width

\* C10 as stated: only the commonmark and latex render operations get the
\* width; the HTML, XML and man calls do not receive or depend on it.
C10_WidthOnlyForReflow ==
  pc = "returned" =>
    LET call == stdout[Len(stdout)] IN
      IF writer \in {"FORMAT_COMMONMARK", "FORMAT_LATEX"}
      THEN ReceivesWidth(call)
      ELSE IgnoresWidth(call) /\ Len(call.args) = 2

\* C10 (amended): the man, commonmark and latex render operations get the
\* width; the HTML and XML calls do not receive or depend on it.
C10_WidthNotForHtmlXml ==
  pc = "returned" =>
    LET call == stdout[Len(stdout)] IN
      IF writer \in {"FORMAT_MAN", "FORMAT_COMMONMARK", "FORMAT_LATEX"}
      THEN ReceivesWidth(call)
      ELSE IgnoresWidth(call) /\ Len(call.args) = 2

\* an XML render that was given a width of 20
C10_Witness ==
  /\ pc = "returned"
  /\ writer = "FORMAT_XML"
  /\ width = 20
  /\ stdout[Len(stdout)].fn = "cmark_render_xml"

\* ------------------------------------------- the command line, as given
\* the words that take the next word as their value
TakesValue == {"--lua", "--width", "--to", "-t"}

RECURSIVE WordsFrom(_, _)
\* the indices, from k on, of the words of the given kind: "file" for the
\* positional arguments, "lua" for the values of the --lua flags
WordsFrom(kind, k) ==
  IF k >= argc THEN <<>>
  ELSE IF argv[k] \in TakesValue
       THEN (IF kind = "lua" /\ argv[k] = "--lua" /\ k + 1 < argc
             THEN <<k + 1>> ELSE <<>>) \o WordsFrom(kind, k + 2)
  ELSE IF StartsWithDash(argv[k]) THEN WordsFrom(kind, k + 1)
  ELSE (IF kind = "file" THEN <<k>> ELSE <<>>) \o WordsFrom(kind, k + 1)

NamedFiles == WordsFrom("file", 1)
NamedFilters == WordsFrom("lua", 1)

Opens == SelectSeq(trace, LAMBDA e : e.op = "fopen")

\* C11: the files opened are the named input files, in command-line order,
\* each closed before the next is opened, and standard input is read exactly
\* when no input file was named.
C11_FilesInOrderStdinIffNone ==
  /\ \A j \in 1..Len(Opens) :
       /\ j <= Len(NamedFiles)
       /\ Opens[j].arg = argv[NamedFiles[j]]
  /\ \A p, q \in Positions :
       (p < q /\ trace[p].op = "fopen" /\ trace[q].op = "fopen") =>
         \E r \in Positions : p < r /\ r < q /\ trace[r].op = "fclose"
  /\ pc = "stdin" => NamedFiles = <<>>
  /\ pc = "finish" => /\ Len(Opens) = Len(NamedFiles)
                      /\ (fp.path = "stdin") <=> (NamedFiles = <<>>)


\* the render operation each format name stands for
RenderOpOf(f) ==
  CASE f = "html"       -> "cmark_render_html"
    [] f = "xml"        -> "cmark_render_xml"
    [] f = "man"        -> "cmark_render_man"
    [] f = "commonmark" -> "cmark_render_commonmark"
    [] f = "latex"      -> "cmark_render_latex"
    [] OTHER            -> "none"

ToFlagGiven == \E k \in 1..(argc - 1) : argv[k] \in {"--to", "-t"}

\* C12: every filter call carries the format name the program holds from the
\* end of the scan on, the name is one of the five valid formats ("html"
\* when no --to flag was given), the render call made is the one that name
\* stands for, and the dispatcher never takes its unknown-format branch.
C12_FormatFixedAndValid ==
  /\ \A p \in Positions :
       /\ trace[p].op = "lua_pcall2" =>
            /\ trace[p].arg[2] = format
            /\ RenderOpOf(format) # "none"
       /\ trace[p].op = "render" => trace[p].arg.fn = RenderOpOf(format)
       /\ trace[p].op = "exit" => trace[p].arg # "writer_unknown"
  /\ (Has("cmark_parser_new") /\ ~ToFlagGiven) => format = "html"

\* --to man with one filter that returned, rendered by the man writer
C12_Witness ==
  /\ Exited(0)
  /\ format = "man"
  /\ Len(Returned) = 1
  /\ \E p \in Positions :
       trace[p].op = "render" /\ trace[p].arg.fn = "cmark_render_man"


\* the tree after the filters 0 .. n-1 worked on it, in that order
FilteredBy(n) == [k \in 1..n |-> k - 1]

\* C13: filter k is handed the tree as the filters before it left it, the
\* renderer receives the program's tree after all the named filters worked
\* on it in order, render is called at most once, and with no filter named
\* a run that reaches teardown rendered exactly once the tree as finish
\* returned it.
C13_RenderedTreeIsFilteredTree ==
  /\ \A p \in Positions :
       /\ trace[p].op = "lua_pcall2" =>
            trace[p].arg[1] = FilteredBy(trace[p].k)
       /\ trace[p].op = "render" =>
            /\ trace[p].res = FilteredBy(Len(NamedFilters))
            /\ trace[p].arg.args[1] = "live"
  /\ CountOp("render") <= 1
  /\ (Has("cmark_node_free") /\ NamedFilters = <<>>) =>
       /\ CountOp("render") = 1
       /\ tree = <<>>

\* two filters returned and the tree rendered is the one both worked on
C13_Witness ==
  /\ Exited(0)
  /\ Len(Returned) = 2
  /\ \E p \in Positions : trace[p].op = "render" /\ trace[p].res = <<0, 1>>

\* no filter named: the tree finish returned is rendered as it is
C13_WitnessNoFilter ==
  /\ Exited(0)
  /\ NamedFilters = <<>>
  /\ \E p \in Positions : trace[p].op = "render" /\ trace[p].res = <<>>


\* the phase of a run: 0 INIT, 1 READING, 2 PARSED and FILTERING,
\* 3 RENDERED or SKIPPED, 4 TEARDOWN and EXIT
Phase ==
  CASE pc = "args" -> 0
    [] pc \in {"files", "read", "close", "stdin", "finish"} -> 1
    [] pc \in {"filters", "load", "call", "lua_close"} -> 2
    [] pc = "free" -> 3
    [] OTHER -> 4

ReadingOps == {"cmark_parser_new", "fopen", "fclose"}

C14_Order ==
  /\ CountOp("cmark_parser_finish") <= 1
  /\ Has("cmark_node_free") => CountOp("cmark_parser_finish") = 1
  /\ Phase = 1 => parser = "live"
  /\ Has("cmark_parser_finish") => parser = "freed" /\ ~fp.open
  /\ \A p \in Positions :
       /\ trace[p].op = "cmark_parser_finish" =>
            /\ p < Len(trace)
            /\ trace[p + 1].op = "cmark_parser_free"
            /\ \A q \in Positions :
                 /\ trace[q].op \in ReadingOps => q < p
                 /\ trace[q].op \in FilterOps \cup {"render", "cmark_node_free"}
                      => p + 1 < q
       /\ trace[p].op = "render" =>
            \A q \in Positions : trace[q].op \in FilterOps => q < p
       /\ trace[p].op = "cmark_node_free" =>
            \/ skip_rendering
            \/ \E q \in Positions : q < p /\ trace[q].op = "render"

C14_Step ==
  /\ Phase' >= Phase
  /\ (fp'.open /\ Len(fp'.chunks) > Len(fp.chunks)) =>
       /\ parser = "live"
       /\ parser' = "live"
       /\ ~Has("cmark_parser_finish")

\* C14: a run moves through INIT, READING, PARSED, FILTERING, RENDERED or
\* SKIPPED, TEARDOWN and EXIT without going back: finish is called at most
\* once (once in a run that reaches teardown) and after all reading and
\* feeding, the parser is freed right after finish and before any filter
\* and is never fed afterwards, render comes after every filter, and the
\* tree is freed only after the render or the skip.
C14_PhaseOrder == []C14_Order /\ [][C14_Step]_vars

\* a run that read a file, ran a filter, rendered and freed the tree
C14_Witness ==
  /\ Exited(0)
  /\ Has("fclose")
  /\ Has("lua_close")
  /\ Has("render")
  /\ Has("cmark_node_free")


\* the Lua states created and not yet closed
LiveRuntimes == CountOp("luaL_newstate") - CountOp("lua_close")

\* C15: at most one Lua state is live at any point; each filter has a state
\* created for it alone, in which its load and its call run; the state of
\* a filter that returned is closed before the state of the next filter is
\* created and before the renderer is called.
C15_OneRuntimeAtATime ==
  /\ LiveRuntimes \in {0, 1}
  /\ (L = "live") <=> (LiveRuntimes = 1)
  /\ \A p \in Positions :
       /\ trace[p].op = "luaL_newstate" =>
            /\ \A q \in Positions :
                 (trace[q].op = "luaL_newstate" /\ trace[q].k = trace[p].k)
                   => q = p
            /\ \A j \in 0..(trace[p].k - 1) :
                 \E q \in Positions :
                   q < p /\ trace[q].op = "lua_close" /\ trace[q].k = j
       /\ trace[p].op \in {"luaL_loadfile", "lua_pcall0", "lua_pcall2"} =>
            \E q \in Positions :
              /\ q < p
              /\ trace[q].op = "luaL_newstate"
              /\ trace[q].k = trace[p].k
              /\ \A r \in Positions :
                   (q < r /\ r < p) => trace[r].op # "lua_close"
       /\ trace[p].op = "render" =>
            \A q \in Positions :
              (trace[q].op = "lua_pcall2" /\ trace[q].res = "ok") =>
                \E r \in Positions :
                  /\ q < r
                  /\ r < p
                  /\ trace[r].op = "lua_close"
                  /\ trace[r].k = trace[q].k

\* two filters returned, each state closed, and the tree was rendered
C15_Witness ==
  /\ Len(Returned) = 2
  /\ CountOp("luaL_newstate") = 2
  /\ CountOp("lua_close") = 2
  /\ Has("render")


RECURSIVE Sum(_)
Sum(s) == IF s = <<>> THEN 0 ELSE s[1] + Sum(Tail(s))

\* C16: for the source being read, whatever its length, every chunk fed is
\* non-empty and no larger than the buffer, the chunks fed so far are the
\* content up to the read position in order, reading goes on only after
\* full reads, and when the loop is left the whole content has been fed and
\* exactly one read was short or empty, the last one.  One source is read at
\* a time: the next file is opened only when the one before is fed whole
\* and closed, so the stream fed is the files read, one after the other.
C16_ChunkProtocol ==
  /\ pc \in {"read", "close", "stdin"} => fp.open
  /\ pc = "files" => ~fp.open
  /\ fp.open =>
    /\ \A j \in 1..Len(fp.chunks) : fp.chunks[j] \in 1..BufSize
    /\ \A j \in 1..(Len(fp.chunks) - 1) : fp.chunks[j] = BufSize
    /\ Sum(fp.chunks) = fp.pos
    /\ fp.pos <= fp.len
    /\ pc \in {"read", "stdin"} =>
         /\ fp.reads = Len(fp.chunks)
         /\ \A j \in 1..Len(fp.chunks) : fp.chunks[j] = BufSize
    /\ pc \in {"close", "finish"} =>
         /\ fp.pos = fp.len
         /\ fp.reads = (fp.len \div BufSize) + 1

\* a file of exactly one buffer: one full chunk fed, then the empty read
C16_Witness ==
  /\ pc = "close"
  /\ fp.len = BufSize
  /\ fp.chunks = <<BufSize>>
  /\ fp.reads = 2

\* an empty standard input: nothing fed, one empty read
C16_WitnessEmpty ==
  /\ pc = "finish"
  /\ fp.path = "stdin"
  /\ fp.len = 0
  /\ fp.chunks = <<>>
  /\ fp.reads = 1


\* a step in which the filter's call returns, and the value it returned
FilterReturns == pc = "call" /\ pc' = "lua_close"
LastReturn == trace'[Len(trace')].val

C18_CountsAndIndexBounds ==
  /\ ~crashed
  /\ \A p \in Positions : trace[p].op = "fopen" => trace[p].arg # "?"
  /\ Has("cmark_parser_new") =>
       /\ NumfpsValues = {Len(NamedFiles)}
       /\ numluafps = Len(NamedFilters)
       /\ DOMAIN files = 0..(Len(NamedFiles) - 1)
       /\ DOMAIN luafiles = 0..(numluafps - 1)
       /\ DOMAIN files \cup DOMAIN luafiles \subseteq 0..(argc - 1)


LoadSteps == {"luaL_loadfile", "lua_pcall0"}

\* C19: the filter function is obtained in two steps, luaL_loadfile and then
\* the call of the chunk, and is called only after both succeeded; an error
\* in either step ends the run with status 3, an error raised by the call
\* with the document and the format ends it with status 5, and a script
\* that yielded no callable value always ends that way; 3 and 5 come from
\* nowhere else.
C19_LoadThenInvokeStatuses ==
  /\ \A p \in Positions :
       /\ trace[p].op \in {"lua_pcall0", "lua_pcall2"} =>
            /\ p > 1
            /\ trace[p - 1].op =
                 (IF trace[p].op = "lua_pcall0"
                  THEN "luaL_loadfile" ELSE "lua_pcall0")
            /\ trace[p - 1].res = "ok"
            /\ trace[p - 1].k = trace[p].k
       /\ (trace[p].op \in FilterOps /\ trace[p].res = "error") =>
            /\ p + 1 = Len(trace)
            /\ trace[p + 1].op = "exit"
            /\ trace[p + 1].res = (IF trace[p].op \in LoadSteps THEN 3 ELSE 5)
            /\ exitStatus = trace[p + 1].res
       /\ (trace[p].op = "exit" /\ trace[p].res \in {3, 5}) =>
            /\ p > 1
            /\ trace[p - 1].res = "error"
            /\ trace[p - 1].op \in
                 (IF trace[p].res = 3 THEN LoadSteps ELSE {"lua_pcall2"})
  /\ lfn = "value" => (pc = "call" \/ Exited(5))

\* the script loaded and ran but gave no function: the call raised, status 5
C19_Witness ==
  /\ Exited(5)
  /\ lfn = "value"
  /\ \E p \in Positions : trace[p].op = "lua_pcall0" /\ trace[p].res = "ok"

\* the chunk's top level raised: status 3
C19_WitnessEval ==
  /\ Exited(3)
  /\ \E p \in Positions :
       trace[p].op = "lua_pcall0" /\ trace[p].res = "error"


\* C20: a run that has ended ended with an exit status, one of 0, 1, 3 and
\* 5, and with 0 only after --help or --version or after the tree was
\* rendered or skipped and then freed.
C20_ExitStatuses ==
  pc = "exit" =>
    /\ ~crashed
    /\ exitStatus \in {0, 1, 3, 5}
    /\ exitStatus = 0 =>
         \/ /\ trace # <<>>
            /\ trace[Len(trace)].arg \in {"help", "version"}
            /\ ~Has("cmark_parser_new")
         \/ /\ document = "freed"
            /\ Has("cmark_node_free")
            /\ Has("render") \/ skip_rendering

====
